---- MODULE Spec2Model ----
(***************************************************************************)
(* A model of the live-chat server (src/server.js): the shared state       *)
(* (serverSettings, messages, users, voiceRooms), the socket.io rooms the  *)
(* handlers address, and one action per socket.io event handler.  Every    *)
(* handler runs to completion (node's single thread), so each handler is   *)
(* one atomic action.  The events a handler emits are recorded, with their *)
(* recipients and a snapshot of their payload, in `emitted`.               *)
(***************************************************************************)
EXTENDS Integers, Sequences, FiniteSets, TLC

\* ------------------------------------------------------------------ bounds
\* Number of sockets that ever connect (socket ids are never reused).
MaxConns == 3
\* Number of message ids uuidv4 hands out in a run.
MaxMsgs == 5
\* Number of those ids handed out in the runs that explore the message log.
MaxLog == 3
\* Sockets that connect, and ids handed out, in the runs that exercise every
\* event.
MaxPeers == 2
MaxNotices == 2
\* Largest reading of the wall clock (new Date()).
MaxTime == 1
\* Number of distinct voice room ids clients use.
MaxRooms == 2

VARIABLES
  serverSettings,  \* the settings object (line 19)
  messages,        \* the message log, an array (line 29)
  users,           \* the users Map, in insertion order (line 30)
  voiceRooms,      \* the voiceRooms Map, in insertion order (line 31)
  connected,       \* the sockets whose connection is open
  nextSocket,      \* number of sockets that have connected so far
  sockRooms,       \* socket.io rooms each socket joined with socket.join
  nextMsgId,       \* number of ids uuidv4 has generated so far
  now,             \* the wall clock new Date() reads
  emitted,         \* the outbound events the last handler emitted, in order
  fault            \* the exception a handler threw and nobody caught, or null

vars == <<serverSettings, messages, users, voiceRooms, connected, nextSocket,
          sockRooms, nextMsgId, now, emitted, fault>>

\* ------------------------------------------------------------ JS values
\* null (serverSettings.ownerId: null, attachment: null, replyTo: null).
Null == "null"

\* A client-supplied value is a string or not one (undefined, an object...).
JsString(s) == [t |-> "string", v |-> s]
JsUndefined == [t |-> "undefined"]

\* obj.f: undefined when the object has no such property.
Field(obj, f) == IF f \in DOMAIN obj THEN obj[f] ELSE JsUndefined

\* obj.f || null, for a property that holds a non-empty string when present.
OrNull(obj, f) == IF f \in DOMAIN obj THEN obj[f] ELSE Null

\* Reading a property of undefined throws a TypeError.
TypeError == "TypeError"

\* The id socket.io gives the i-th socket.
SocketId(i) == "sock" \o ToString(i)
SocketIds == {SocketId(i) : i \in 1..MaxConns}

\* The id uuidv4() returns on its i-th call.
uuidv4(i) == "m" \o ToString(i)

\* The room ids clients use, and the socket.io room of a voice room.
RoomIds == {"r" \o ToString(i) : i \in 1..MaxRooms}
VoiceChannel(roomId) == "voice_" \o roomId

\* ---------------------------------------------------------------- strings
Whitespace == {" ", "\t", "\n"}

RECURSIVE StripAngles(_)
\* input.replace(/[<>]/g, '')
StripAngles(s) ==
  IF s = "" THEN ""
  ELSE (IF SubSeq(s, 1, 1) \in {"<", ">"} THEN "" ELSE SubSeq(s, 1, 1))
         \o StripAngles(Tail(s))

RECURSIVE TrimLeft(_)
TrimLeft(s) ==
  IF s # "" /\ SubSeq(s, 1, 1) \in Whitespace THEN TrimLeft(Tail(s)) ELSE s

RECURSIVE TrimRight(_)
TrimRight(s) ==
  IF s # "" /\ SubSeq(s, Len(s), Len(s)) \in Whitespace
    THEN TrimRight(SubSeq(s, 1, Len(s) - 1))
    ELSE s

\* input.trim()
Trim(s) == TrimRight(TrimLeft(s))

\* sanitizeInput(input), on a client-supplied value
sanitizeInput(input) ==
  IF input.t # "string" THEN "" ELSE Trim(StripAngles(input.v))

\* s.startsWith(p)
StartsWith(s, p) == Len(s) >= Len(p) /\ SubSeq(s, 1, Len(p)) = p

RECURSIVE NonSpaceRun(_)
\* length of the longest prefix of s without whitespace: [^\s]+
NonSpaceRun(s) ==
  IF s = "" \/ SubSeq(s, 1, 1) \in Whitespace THEN 0
  ELSE 1 + NonSpaceRun(Tail(s))

\* Length of the match of /https?:\/\/[^\s]+/ at the start of s, 0 if none.
UrlMatch(s) ==
  LET scheme == IF StartsWith(s, "https://") THEN 8
                ELSE IF StartsWith(s, "http://") THEN 7 ELSE 0
      rest == NonSpaceRun(SubSeq(s, scheme + 1, Len(s)))
  IN IF scheme > 0 /\ rest > 0 THEN scheme + rest ELSE 0

Anchor(url) ==
  "<a href=\"" \o url \o "\" target=\"_blank\" rel=\"noopener noreferrer\">"
    \o url \o "</a>"

RECURSIVE processMessage(_)
\* text.replace(urlRegex, '<a href="$1" ...>$1</a>')
processMessage(text) ==
  IF text = "" THEN ""
  ELSE LET n == UrlMatch(text)
       IN IF n > 0
            THEN Anchor(SubSeq(text, 1, n))
                   \o processMessage(SubSeq(text, n + 1, Len(text)))
            ELSE SubSeq(text, 1, 1) \o processMessage(Tail(text))

\* ------------------------------------------------------------- sequences
Range(s) == {s[i] : i \in 1..Len(s)}

\* array.findIndex(pred): the first index, 0 for -1
FindIndex(s, Pred(_)) ==
  IF \E i \in 1..Len(s) : Pred(s[i])
    THEN CHOOSE i \in 1..Len(s) : Pred(s[i]) /\ \A j \in 1..(i - 1) : ~Pred(s[j])
    ELSE 0

\* array.splice(i): without a count it removes everything from i on.
SpliceToEnd(s, i) == SubSeq(s, 1, i - 1)

\* array.splice(i, 1)
Splice(s, i) == SubSeq(s, 1, i - 1) \o SubSeq(s, i + 1, Len(s))

\* array.filter(pred)
Filter(s, Pred(_)) == SelectSeq(s, Pred)

\* array.includes(x)
Includes(s, x) == \E i \in 1..Len(s) : s[i] = x

\* ------------------------------------------------------- the users Map
\* users.has(id), users.get(id), users.set(id, u), users.delete(id): a Map
\* keeps its keys in insertion order, and set on an existing key keeps the
\* key's place.
UsersIndex(us, id) == FindIndex(us, LAMBDA u : u.id = id)
UsersHas(us, id) == UsersIndex(us, id) # 0
UsersGet(us, id) == us[UsersIndex(us, id)]
UsersSet(us, id, u) ==
  IF UsersHas(us, id) THEN [us EXCEPT ![UsersIndex(us, id)] = u]
  ELSE Append(us, u)
UsersDelete(us, id) ==
  IF UsersHas(us, id) THEN Splice(us, UsersIndex(us, id)) ELSE us

\* ---------------------------------------------------- the voiceRooms Map
\* A sequence of [roomId, members], in insertion order.
RoomIndex(vr, roomId) == FindIndex(vr, LAMBDA r : r.roomId = roomId)
RoomHas(vr, roomId) == RoomIndex(vr, roomId) # 0
RoomGet(vr, roomId) == vr[RoomIndex(vr, roomId)].members

\* --------------------------------------------------------- socket.io rooms
\* The open sockets in a socket.io room: every socket is in the room named
\* by its own id, and in the rooms it joined with socket.join.
RoomSockets(conn, rooms, room) ==
  {s \in conn : s = room \/ room \in rooms[s]}

\* An event that goes to every open socket, whoever it was meant for.
EmitToAll(to, name, payload) == [to |-> connected, name |-> name, payload |-> payload]

\* An outbound event, its recipients and its payload as serialised at emit.
Emit(to, name, payload) == [to |-> to, name |-> name, payload |-> payload]

\* ----------------------------------------------------------------- Init
Init ==
  /\ serverSettings = [allowHistoryForNewUsers |-> TRUE,
                       maxMessageLength |-> 1000,
                       allowAttachments |-> TRUE,
                       allowVoiceChat |-> TRUE,
                       serverName |-> "Chat Server",
                       ownerId |-> Null]
  /\ messages = <<>>
  /\ users = <<>>
  /\ voiceRooms = <<>>
  /\ connected = {}
  /\ nextSocket = 0
  /\ sockRooms = [s \in SocketIds |-> {}]
  /\ nextMsgId = 0
  /\ now = 0
  /\ emitted = <<>>
  /\ fault = Null

\* The wall clock advances between handlers.
Tick ==
  /\ fault = Null
  /\ now < MaxTime
  /\ now' = now + 1
  /\ UNCHANGED <<serverSettings, messages, users, voiceRooms, connected,
                 nextSocket, sockRooms, nextMsgId, emitted, fault>>

\* io.on('connection'): a new socket connects.
Connect ==
  /\ fault = Null
  /\ nextSocket < MaxConns
  /\ LET id == SocketId(nextSocket + 1)
         settings == IF serverSettings.ownerId = Null
                       THEN [serverSettings EXCEPT !.ownerId = id]
                       ELSE serverSettings
     IN /\ nextSocket' = nextSocket + 1
        /\ connected' = connected \cup {id}
        /\ serverSettings' = settings
        /\ emitted' =
             (IF serverSettings.ownerId = Null
                THEN <<Emit({id}, "owner_status", TRUE)>> ELSE <<>>)
             \o <<Emit({id}, "server_settings", settings)>>
  /\ UNCHANGED <<messages, users, voiceRooms, sockRooms, nextMsgId, now, fault>>

\* The system notice the handlers append to the log.
SystemMessage(id, content, timestamp) ==
  [id |-> id, type |-> "system", content |-> content,
   timestamp |-> timestamp, username |-> "System"]

\* A || B on strings: B when A is the empty string.
OrElse(a, b) == IF a = "" THEN b ELSE a

\* socket.on('user_join'); userData is {username, bubbleColor}, or absent:
\* userData.username (line 120) then throws.
UserJoin(socket, userData) ==
  /\ socket \in connected
  /\ fault = Null
  /\ IF userData = JsUndefined
       THEN /\ fault' = TypeError
            /\ emitted' = <<>>
            /\ UNCHANGED <<users, messages, nextMsgId>>
       ELSE /\ nextMsgId < MaxMsgs
            /\ LET sanitizedUsername ==
                     OrElse(sanitizeInput(Field(userData, "username")), "Anonymous")
                   bubbleColor == Field(userData, "bubbleColor")
                   user == [id |-> socket,
                            username |-> sanitizedUsername,
                            bubbleColor |-> IF bubbleColor.t = "string"
                                              THEN OrElse(bubbleColor.v, "#007bff")
                                              ELSE "#007bff",
                            isOwner |-> (socket = serverSettings.ownerId),
                            joinTime |-> now]
                   users1 == UsersSet(users, socket, user)
                   joinMessage ==
                     SystemMessage(uuidv4(nextMsgId + 1),
                                   sanitizedUsername \o " joined the chat", now)
               IN /\ users' = users1
                  /\ messages' = Append(messages, joinMessage)
                  /\ nextMsgId' = nextMsgId + 1
                  /\ emitted' =
                       <<Emit({socket}, "user_data", user)>>
                       \o (IF serverSettings.allowHistoryForNewUsers
                             THEN <<Emit({socket}, "message_history", messages)>>
                             ELSE <<>>)
                       \o <<Emit(connected, "users_update", users1),
                            Emit(connected, "new_message", joinMessage)>>
                  /\ fault' = fault
  /\ UNCHANGED <<serverSettings, voiceRooms, connected, nextSocket, sockRooms, now>>

\* The voiceRooms.forEach of the disconnect handler: the socket leaves every
\* room that has it, and a room left empty is deleted.
PurgeRooms(vr, socket) ==
  LET left == [i \in 1..Len(vr) |->
                 [vr[i] EXCEPT !.members = vr[i].members \ {socket}]]
  IN Filter(left, LAMBDA r : r.members # {})

\* The voice_user_left events of that forEach, in the Map's order.
PurgeEvents(vr, socket, conn, rooms) ==
  LET hit == Filter(vr, LAMBDA r : socket \in r.members)
  IN [i \in 1..Len(hit) |->
        Emit(RoomSockets(conn, rooms, VoiceChannel(hit[i].roomId)),
             "voice_user_left", socket)]

\* A succession that promotes every user left.
TransferOwnerToAll(us) == [i \in 1..Len(us) |-> [us[i] EXCEPT !.isOwner = TRUE]]

\* Transfer ownership if owner leaves (lines 372-381): the first user of the
\* Map, users.values().next().value, becomes owner.
TransferOwner(us) == [us EXCEPT ![1].isOwner = TRUE]

\* socket.on('disconnect'): socket.io has closed the socket and taken it out
\* of every room before the handler runs.
Disconnect(socket) ==
  /\ socket \in connected
  /\ fault = Null
  /\ LET conn1 == connected \ {socket}
         rooms1 == [sockRooms EXCEPT ![socket] = {}]
     IN /\ connected' = conn1
        /\ sockRooms' = rooms1
        /\ IF UsersHas(users, socket)
             THEN /\ nextMsgId < MaxMsgs
                  /\ LET user == UsersGet(users, socket)
                         users1 == UsersDelete(users, socket)
                         leaveMessage ==
                           SystemMessage(uuidv4(nextMsgId + 1),
                                         user.username \o " left the chat", now)
                         transfer == user.isOwner /\ Len(users1) > 0
                         users2 == IF transfer THEN TransferOwner(users1) ELSE users1
                         settings == IF transfer
                                       THEN [serverSettings EXCEPT !.ownerId = users2[1].id]
                                       ELSE serverSettings
                     IN /\ users' = users2
                        /\ voiceRooms' = PurgeRooms(voiceRooms, socket)
                        /\ messages' = Append(messages, leaveMessage)
                        /\ nextMsgId' = nextMsgId + 1
                        /\ serverSettings' = settings
                        /\ emitted' =
                             PurgeEvents(voiceRooms, socket, conn1, rooms1)
                             \o <<Emit(conn1, "new_message", leaveMessage),
                                  Emit(conn1, "users_update", users1)>>
                             \o (IF transfer
                                   THEN <<Emit(RoomSockets(conn1, rooms1, users2[1].id),
                                               "owner_status", TRUE),
                                          Emit(conn1, "server_settings", settings)>>
                                   ELSE <<>>)
             ELSE /\ emitted' = <<>>
                  /\ UNCHANGED <<users, voiceRooms, messages, nextMsgId, serverSettings>>
  /\ UNCHANGED <<nextSocket, now, fault>>

\* { ...a, ...b }: the fields of b overwrite, the other fields of a stay.
Merge(a, b) ==
  [f \in DOMAIN a \cup DOMAIN b |-> IF f \in DOMAIN b THEN b[f] ELSE a[f]]

\* socket.on('change_username')
ChangeUsername(socket, newUsername) ==
  /\ socket \in connected
  /\ fault = Null
  /\ IF UsersHas(users, socket)
       THEN /\ nextMsgId < MaxMsgs
            /\ LET user == UsersGet(users, socket)
                   oldUsername == user.username
                   sanitizedUsername == OrElse(sanitizeInput(newUsername), "Anonymous")
                   users1 == UsersSet(users, socket,
                                      [user EXCEPT !.username = sanitizedUsername])
                   changeMessage ==
                     SystemMessage(uuidv4(nextMsgId + 1),
                                   oldUsername \o " changed their name to "
                                     \o sanitizedUsername, now)
               IN /\ users' = users1
                  /\ messages' = Append(messages, changeMessage)
                  /\ nextMsgId' = nextMsgId + 1
                  /\ emitted' = <<Emit(connected, "new_message", changeMessage),
                                  Emit(connected, "users_update", users1)>>
       ELSE /\ emitted' = <<>>
            /\ UNCHANGED <<users, messages, nextMsgId>>
  /\ UNCHANGED <<serverSettings, voiceRooms, connected, nextSocket, sockRooms, now, fault>>

\* socket.on('change_bubble_color'): the color is stored as received.
ChangeBubbleColor(socket, newColor) ==
  /\ socket \in connected
  /\ fault = Null
  /\ IF UsersHas(users, socket)
       THEN LET user == UsersGet(users, socket)
                users1 == UsersSet(users, socket, [user EXCEPT !.bubbleColor = newColor])
            IN /\ users' = users1
               /\ emitted' = <<Emit(connected, "users_update", users1)>>
       ELSE /\ emitted' = <<>>
            /\ UNCHANGED users
  /\ UNCHANGED <<serverSettings, messages, voiceRooms, connected, nextSocket,
                 sockRooms, nextMsgId, now, fault>>

\* socket.on('send_message'); messageData is {content, attachment}, with
\* formatting and replyTo absent, or is absent itself: messageData.content
\* (line 191) then throws, once the sender is known to be a user.
SendMessage(socket, messageData) ==
  /\ socket \in connected
  /\ fault = Null
  /\ IF ~UsersHas(users, socket)
       THEN /\ emitted' = <<>>
            /\ UNCHANGED <<messages, nextMsgId, fault>>
       ELSE IF messageData = JsUndefined
         THEN /\ fault' = TypeError
              /\ emitted' = <<>>
              /\ UNCHANGED <<messages, nextMsgId>>
         ELSE LET sanitizedContent == sanitizeInput(Field(messageData, "content"))
                  attachment == OrNull(messageData, "attachment")
              IN IF sanitizedContent = "" /\ attachment = Null
                   THEN /\ emitted' = <<>>
                        /\ UNCHANGED <<messages, nextMsgId, fault>>
                   ELSE /\ nextMsgId < MaxMsgs
                        /\ LET user == UsersGet(users, socket)
                               message == [id |-> uuidv4(nextMsgId + 1),
                                           type |-> "user",
                                           content |-> processMessage(sanitizedContent),
                                           username |-> user.username,
                                           userId |-> socket,
                                           bubbleColor |-> user.bubbleColor,
                                           timestamp |-> now,
                                           formatting |-> "{}",
                                           attachment |-> attachment,
                                           replyTo |-> Null,
                                           reactions |-> <<>>]
                           IN /\ messages' = Append(messages, message)
                              /\ nextMsgId' = nextMsgId + 1
                              /\ emitted' = <<Emit(connected, "new_message", message)>>
                              /\ fault' = fault
  /\ UNCHANGED <<serverSettings, users, voiceRooms, connected, nextSocket,
                 sockRooms, now>>

\* messages.findIndex(msg => msg.id === messageId)
MessageIndex(msgs, messageId) == FindIndex(msgs, LAMBDA msg : msg.id = messageId)

\* messages[messageIndex].userId === socket.id (a system notice has no userId)
AuthoredBy(msg, socket) == "userId" \in DOMAIN msg /\ msg.userId = socket

\* user?.isOwner, with user = users.get(socket.id)
IsOwnerUser(us, socket) == UsersHas(us, socket) /\ UsersGet(us, socket).isOwner

\* An edit condition that lets the owner edit too, as delete_message does.
MayEditOrOwner(msgs, messageIndex, socket) ==
  /\ messageIndex # 0
  /\ (AuthoredBy(msgs[messageIndex], socket) \/ IsOwnerUser(users, socket))

\* The condition of edit_message (line 217).
MayEdit(msgs, messageIndex, socket) ==
  messageIndex # 0 /\ AuthoredBy(msgs[messageIndex], socket)

\* socket.on('edit_message'); data is {messageId, newContent}, or absent:
\* the destructuring of line 214 then throws.  An absent messageId is
\* undefined, the id of no message.
EditMessage(socket, data) ==
  /\ socket \in connected
  /\ fault = Null
  /\ IF data = JsUndefined
       THEN /\ fault' = TypeError
            /\ emitted' = <<>>
            /\ UNCHANGED messages
       ELSE LET messageIndex == IF "messageId" \in DOMAIN data
                                  THEN MessageIndex(messages, data.messageId)
                                  ELSE 0
            IN IF MayEdit(messages, messageIndex, socket)
                 THEN LET sanitizedContent == sanitizeInput(Field(data, "newContent"))
                          edit == [content |-> processMessage(sanitizedContent),
                                   edited |-> TRUE,
                                   editedAt |-> now]
                      IN /\ messages' =
                              [messages EXCEPT
                                 ![messageIndex] = Merge(messages[messageIndex], edit)]
                         /\ emitted' = <<Emit(connected, "message_edited",
                                              [messageId |-> data.messageId,
                                               newContent |-> edit.content,
                                               edited |-> TRUE,
                                               editedAt |-> edit.editedAt])>>
                         /\ fault' = fault
                 ELSE /\ emitted' = <<>>
                      /\ UNCHANGED <<messages, fault>>
  /\ UNCHANGED <<serverSettings, users, voiceRooms, connected, nextSocket,
                 sockRooms, nextMsgId, now>>

\* A delete condition that asks only for a registered user.
MayDeleteAnyUser(msgs, messageIndex, us, socket) ==
  messageIndex # 0 /\ UsersHas(us, socket)

\* A delete condition that lets the owner through without looking whether
\* the message was found.
MayDeleteOwnerUnchecked(msgs, messageIndex, us, socket) ==
  \/ IsOwnerUser(us, socket)
  \/ messageIndex # 0 /\ AuthoredBy(msgs[messageIndex], socket)

\* The condition of delete_message (lines 237-238).
MayDelete(msgs, messageIndex, us, socket) ==
  /\ messageIndex # 0
  /\ (AuthoredBy(msgs[messageIndex], socket) \/ IsOwnerUser(us, socket))

\* socket.on('delete_message')
DeleteMessage(socket, messageId) ==
  /\ socket \in connected
  /\ fault = Null
  /\ LET messageIndex == MessageIndex(messages, messageId)
     IN IF MayDelete(messages, messageIndex, users, socket)
          THEN /\ messages' = Splice(messages, messageIndex)
               /\ emitted' = <<Emit(connected, "message_deleted", messageId)>>
          ELSE /\ emitted' = <<>>
               /\ UNCHANGED messages
  /\ UNCHANGED <<serverSettings, users, voiceRooms, connected, nextSocket,
                 sockRooms, nextMsgId, now, fault>>

\* messages[i].reactions.get(emoji), [] when the message has no reactions
\* Map yet or the Map has no such key (lines 251-259).
ReactionUsers(msg, emoji) ==
  IF "reactions" \in DOMAIN msg /\ emoji \in DOMAIN msg.reactions
    THEN msg.reactions[emoji] ELSE <<>>

\* A reaction that is pushed whoever reacted before.
MayReactAlways(reactionUsers, username) == TRUE

\* The condition under which add_reaction pushes the username (line 259).
MayReact(reactionUsers, username) == ~Includes(reactionUsers, username)

\* socket.on('add_reaction'); data is {messageId, emoji}, or absent: the
\* destructuring of line 246 then throws.  The Map and the key's empty list
\* are created only on a path that pushes: a list that already holds the
\* username exists already.
AddReaction(socket, data) ==
  /\ socket \in connected
  /\ fault = Null
  /\ IF data = JsUndefined
       THEN /\ fault' = TypeError
            /\ emitted' = <<>>
            /\ UNCHANGED messages
       ELSE LET messageIndex == MessageIndex(messages, data.messageId)
            IN IF messageIndex # 0 /\ UsersHas(users, socket)
                    /\ MayReact(ReactionUsers(messages[messageIndex], data.emoji),
                                UsersGet(users, socket).username)
                 THEN LET msg == messages[messageIndex]
                          user == UsersGet(users, socket)
                          reactions == IF "reactions" \in DOMAIN msg
                                         THEN msg.reactions ELSE <<>>
                          reactionUsers ==
                            Append(ReactionUsers(msg, data.emoji), user.username)
                          reactions1 ==
                            [e \in DOMAIN reactions \cup {data.emoji} |->
                               IF e = data.emoji THEN reactionUsers ELSE reactions[e]]
                      IN /\ messages' =
                              [messages EXCEPT
                                 ![messageIndex] = Merge(msg, [reactions |-> reactions1])]
                         /\ emitted' = <<Emit(connected, "reaction_added",
                                              [messageId |-> data.messageId,
                                               emoji |-> data.emoji,
                                               users |-> reactionUsers])>>
                         /\ fault' = fault
                 ELSE /\ emitted' = <<>>
                      /\ UNCHANGED <<messages, fault>>
  /\ UNCHANGED <<serverSettings, users, voiceRooms, connected, nextSocket,
                 sockRooms, nextMsgId, now>>

\* voiceRooms after join_voice: the room is created if absent, at the end
\* of the Map, and the socket is added to its members (lines 274-278).
RoomsJoin(vr, roomId, socket) ==
  IF RoomHas(vr, roomId)
    THEN [vr EXCEPT ![RoomIndex(vr, roomId)].members = @ \cup {socket}]
    ELSE Append(vr, [roomId |-> roomId, members |-> {socket}])

\* socket.on('join_voice')
JoinVoice(socket, roomId) ==
  /\ socket \in connected
  /\ fault = Null
  /\ IF serverSettings.allowVoiceChat /\ UsersHas(users, socket)
       THEN LET user == UsersGet(users, socket)
                rooms1 == [sockRooms EXCEPT ![socket] = @ \cup {VoiceChannel(roomId)}]
            IN /\ voiceRooms' = RoomsJoin(voiceRooms, roomId, socket)
               /\ sockRooms' = rooms1
               /\ emitted' = <<Emit(RoomSockets(connected, rooms1, VoiceChannel(roomId)),
                                    "voice_user_joined",
                                    [userId |-> socket, username |-> user.username])>>
       ELSE /\ emitted' = <<>>
            /\ UNCHANGED <<voiceRooms, sockRooms>>
  /\ UNCHANGED <<serverSettings, messages, users, connected, nextSocket,
                 nextMsgId, now, fault>>

\* A leave that keeps the room it empties.
RoomsLeaveKeepEmpty(vr, roomId, socket) ==
  [vr EXCEPT ![RoomIndex(vr, roomId)].members = @ \ {socket}]

\* voiceRooms after leave_voice on an existing room: the socket is removed
\* and the room deleted if that leaves it empty (lines 290-295).
RoomsLeave(vr, roomId, socket) ==
  LET i == RoomIndex(vr, roomId)
      members == vr[i].members \ {socket}
  IN IF members = {} THEN Splice(vr, i) ELSE [vr EXCEPT ![i].members = members]

\* socket.on('leave_voice')
LeaveVoice(socket, roomId) ==
  /\ socket \in connected
  /\ fault = Null
  /\ IF RoomHas(voiceRooms, roomId)
       THEN LET rooms1 == [sockRooms EXCEPT ![socket] = @ \ {VoiceChannel(roomId)}]
            IN /\ voiceRooms' = RoomsLeave(voiceRooms, roomId, socket)
               /\ sockRooms' = rooms1
               /\ emitted' = <<Emit(RoomSockets(connected, rooms1, VoiceChannel(roomId)),
                                    "voice_user_left", socket)>>
       ELSE /\ emitted' = <<>>
            /\ UNCHANGED <<voiceRooms, sockRooms>>
  /\ UNCHANGED <<serverSettings, messages, users, connected, nextSocket,
                 nextMsgId, now, fault>>

\* A settings condition that asks only for a registered user.
MayUpdateSettingsAnyUser(us, socket) == UsersHas(us, socket)

\* The condition of update_server_settings (line 304).
MayUpdateSettings(us, socket) == UsersHas(us, socket) /\ UsersGet(us, socket).isOwner

\* socket.on('update_server_settings'); newSettings is a partial settings
\* object, a function from some field names to values.
UpdateServerSettings(socket, newSettings) ==
  /\ socket \in connected
  /\ fault = Null
  /\ IF MayUpdateSettings(users, socket)
       THEN LET settings == Merge(serverSettings, newSettings)
            IN /\ serverSettings' = settings
               /\ emitted' = <<Emit(connected, "server_settings", settings)>>
       ELSE /\ emitted' = <<>>
            /\ UNCHANGED serverSettings
  /\ UNCHANGED <<messages, users, voiceRooms, connected, nextSocket, sockRooms,
                 nextMsgId, now, fault>>

UpperCase == "ABCDEFGHIJKLMNOPQRSTUVWXYZ"
LowerCase == "abcdefghijklmnopqrstuvwxyz"

UpperLetters == {SubSeq(UpperCase, i, i) : i \in 1..Len(UpperCase)}
LowerOf ==
  [c \in UpperLetters |->
     LET i == CHOOSE i \in 1..Len(UpperCase) : SubSeq(UpperCase, i, i) = c
     IN SubSeq(LowerCase, i, i)]

RECURSIVE toLowerCase(_)
\* s.toLowerCase(), on ASCII letters
toLowerCase(s) ==
  IF s = "" THEN ""
  ELSE LET c == SubSeq(s, 1, 1)
       IN (IF c \in UpperLetters THEN LowerOf[c] ELSE c) \o toLowerCase(Tail(s))

\* s.includes(sub), on strings
StringIncludes(s, sub) ==
  \E i \in 0..(Len(s) - Len(sub)) : SubSeq(s, i + 1, i + Len(sub)) = sub

\* The filter of search_messages (lines 313-316).
SearchResults(msgs, sanitizedQuery) ==
  Filter(msgs, LAMBDA msg :
                 \/ StringIncludes(toLowerCase(msg.content), sanitizedQuery)
                 \/ StringIncludes(toLowerCase(msg.username), sanitizedQuery))

\* socket.on('search_messages')
SearchMessages(socket, query) ==
  /\ socket \in connected
  /\ fault = Null
  /\ LET sanitizedQuery == toLowerCase(sanitizeInput(query))
     IN emitted' = <<Emit({socket}, "search_results",
                          SearchResults(messages, sanitizedQuery))>>
  /\ UNCHANGED <<serverSettings, messages, users, voiceRooms, connected,
                 nextSocket, sockRooms, nextMsgId, now, fault>>

\* socket.to(room): the open sockets in the room, the sender excepted.
SocketTo(socket, room) == RoomSockets(connected, sockRooms, room) \ {socket}

\* socket.on('webrtc_offer'); data is {target, offer}, or absent: data.target
\* (line 323) then throws.
WebrtcOffer(socket, data) ==
  /\ socket \in connected
  /\ fault = Null
  /\ IF data = JsUndefined
       THEN fault' = TypeError /\ emitted' = <<>>
       ELSE /\ emitted' = <<Emit(SocketTo(socket, data.target), "webrtc_offer",
                                 [offer |-> data.offer, sender |-> socket])>>
            /\ fault' = fault
  /\ UNCHANGED <<serverSettings, messages, users, voiceRooms, connected,
                 nextSocket, sockRooms, nextMsgId, now>>

\* socket.on('webrtc_answer'); data is {target, answer}, or absent: data.target
\* (line 330) then throws.
WebrtcAnswer(socket, data) ==
  /\ socket \in connected
  /\ fault = Null
  /\ IF data = JsUndefined
       THEN fault' = TypeError /\ emitted' = <<>>
       ELSE /\ emitted' = <<Emit(SocketTo(socket, data.target), "webrtc_answer",
                                 [answer |-> data.answer, sender |-> socket])>>
            /\ fault' = fault
  /\ UNCHANGED <<serverSettings, messages, users, voiceRooms, connected,
                 nextSocket, sockRooms, nextMsgId, now>>

\* socket.on('webrtc_ice_candidate'); data is {target, candidate}, or absent: data.target
\* (line 337) then throws.
WebrtcIceCandidate(socket, data) ==
  /\ socket \in connected
  /\ fault = Null
  /\ IF data = JsUndefined
       THEN fault' = TypeError /\ emitted' = <<>>
       ELSE /\ emitted' = <<Emit(SocketTo(socket, data.target), "webrtc_ice_candidate",
                                 [candidate |-> data.candidate, sender |-> socket])>>
            /\ fault' = fault
  /\ UNCHANGED <<serverSettings, messages, users, voiceRooms, connected,
                 nextSocket, sockRooms, nextMsgId, now>>

\* ------------------------------------------------------- specifications
\* What a client sends with user_join: a name with a tag and spaces around
\* it, and no bubble color.
JoinAsAl == [username |-> JsString(" <al> "), bubbleColor |-> JsUndefined]

\* Message texts clients submit: tagged with spaces around, and nothing but
\* a tag.
RawContents == {JsString(" <b>Yo</b> "), JsString("<>")}
\* Texts clients submit as the new content of a message.
RawEdits == {JsString("see http://x.io"), JsUndefined}
\* Attachments clients submit: none, or the descriptor of an upload.
Attachments == {Null, "/uploads/f.png"}
\* Usernames clients rename themselves to.
RawRenames == {JsString(" "), JsString("<al>")}
\* Message ids clients name: the ids handed out so far, and one never
\* handed out.
MessageIds == {uuidv4(i) : i \in 1..nextMsgId} \cup {"m0"}
\* Reactions clients add: "+1" to any message, "ok" to the first message.
ReactionInputs ==
  {[messageId |-> m, emoji |-> "+1"] : m \in MessageIds}
    \cup {[messageId |-> uuidv4(1), emoji |-> "ok"]}
\* The log may still grow in the runs that explore it.
LogOpen == nextMsgId < MaxLog
\* Targets clients name in signaling: a socket id, the socket.io room of a
\* voice room, a name nobody has.
Targets == SocketIds \cup {VoiceChannel("r1"), "nobody"}
\* Settings patches clients submit.
Patches == {[allowHistoryForNewUsers |-> FALSE, maxMessageLength |-> 2],
            [serverName |-> "Den", motd |-> "hello"],
            [ownerId |-> SocketId(2)]}

\* Connections, joins (repeated joins included) and disconnections.
NextPresence ==
  \/ Tick
  \/ Connect
  \/ \E s \in SocketIds : UserJoin(s, JoinAsAl)
  \/ \E s \in SocketIds : Disconnect(s)

SpecPresence == Init /\ [][NextPresence]_vars

\* Voice rooms, among at most MaxPeers connections.
NextVoice ==
  \/ nextSocket < MaxPeers /\ Connect
  \/ LogOpen /\ \E s \in SocketIds : UserJoin(s, JoinAsAl)
  \/ \E s \in SocketIds, r \in RoomIds : JoinVoice(s, r)
  \/ \E s \in SocketIds, r \in RoomIds : LeaveVoice(s, r)
  \/ LogOpen /\ \E s \in SocketIds : Disconnect(s)

SpecVoice == Init /\ [][NextVoice]_vars

\* Signaling between sockets, some of them in the voice room r1.
NextSignaling ==
  \/ Connect
  \/ LogOpen /\ \E s \in SocketIds : UserJoin(s, JoinAsAl)
  \/ \E s \in SocketIds : JoinVoice(s, "r1")
  \/ \E s \in SocketIds, t \in Targets :
       WebrtcOffer(s, [target |-> t, offer |-> "sdp"])
  \/ \E s \in SocketIds, t \in Targets :
       WebrtcAnswer(s, [target |-> t, answer |-> "sdp"])
  \/ \E s \in SocketIds, t \in Targets :
       WebrtcIceCandidate(s, [target |-> t, candidate |-> "ice"])
  \/ LogOpen /\ \E s \in SocketIds : Disconnect(s)

SpecSignaling == Init /\ [][NextSignaling]_vars

\* The message log: sending, editing and deleting.
NextMessages ==
  \/ Tick
  \/ Connect
  \/ LogOpen /\ \E s \in SocketIds : UserJoin(s, JoinAsAl)
  \/ LogOpen /\ \E s \in SocketIds, c \in RawContents :
       SendMessage(s, [content |-> c, attachment |-> Null])
  \/ \E s \in SocketIds, m \in MessageIds, c \in RawEdits :
       EditMessage(s, [messageId |-> m, newContent |-> c])
  \/ \E s \in SocketIds, m \in MessageIds : DeleteMessage(s, m)
  \/ LogOpen /\ \E s \in SocketIds : Disconnect(s)

SpecMessages == Init /\ [][NextMessages]_vars

\* Reactions, by users who rename themselves.
NextReactions ==
  \/ Connect
  \/ LogOpen /\ \E s \in SocketIds : UserJoin(s, JoinAsAl)
  \/ LogOpen /\ \E s \in SocketIds, n \in RawRenames : ChangeUsername(s, n)
  \/ LogOpen /\ \E s \in SocketIds, a \in Attachments :
       SendMessage(s, [content |-> JsString("<>"), attachment |-> a])
  \/ \E s \in SocketIds, d \in ReactionInputs : AddReaction(s, d)
  \/ LogOpen /\ \E s \in SocketIds : Disconnect(s)

SpecReactions == Init /\ [][NextReactions]_vars

\* The settings and who may change them.
NextSettings ==
  \/ Connect
  \/ LogOpen /\ \E s \in SocketIds : UserJoin(s, JoinAsAl)
  \/ \E s \in SocketIds, p \in Patches : UpdateServerSettings(s, p)
  \/ LogOpen /\ \E s \in SocketIds : Disconnect(s)

SpecSettings == Init /\ [][NextSettings]_vars

\* Payload shapes: an object without the expected properties, and no
\* payload at all.
Stray == [stray |-> JsUndefined]
JoinPayloads == {JoinAsAl, Stray, JsUndefined}
SendPayloads == {[content |-> JsString("hi")], Stray, JsUndefined}
EditPayloads ==
  {[messageId |-> m, newContent |-> JsString("yo")] : m \in MessageIds}
    \cup {[messageId |-> m] : m \in MessageIds} \cup {Stray, JsUndefined}
ReactionPayloads == {[messageId |-> uuidv4(1), emoji |-> "+1"], JsUndefined}

\* The events whose payload is an object, in every shape, among at most
\* MaxPeers connections.
NextPayloads ==
  \/ nextSocket < MaxPeers /\ Connect
  \/ LogOpen /\ \E s \in SocketIds, d \in JoinPayloads : UserJoin(s, d)
  \/ LogOpen /\ \E s \in SocketIds : ChangeUsername(s, JsUndefined)
  \/ LogOpen /\ \E s \in SocketIds, d \in SendPayloads : SendMessage(s, d)
  \/ \E s \in SocketIds, d \in EditPayloads : EditMessage(s, d)
  \/ \E s \in SocketIds, d \in ReactionPayloads : AddReaction(s, d)
  \/ \E s \in SocketIds : SearchMessages(s, JsUndefined)
  \/ \E s \in SocketIds, d \in {[target |-> SocketId(1), offer |-> "sdp"], JsUndefined} :
       WebrtcOffer(s, d)
  \/ \E s \in SocketIds, d \in {[target |-> SocketId(1), answer |-> "sdp"], JsUndefined} :
       WebrtcAnswer(s, d)
  \/ \E s \in SocketIds,
        d \in {[target |-> SocketId(1), candidate |-> "ice"], JsUndefined} :
       WebrtcIceCandidate(s, d)
  \/ LogOpen /\ \E s \in SocketIds : Disconnect(s)

SpecPayloads == Init /\ [][NextPayloads]_vars

\* Message texts of two and of five characters, and the limit the owner
\* sets between them.
LimitContents == {JsString("hi"), JsString("hello")}
LimitPatch == [maxMessageLength |-> 2]

\* Sending and editing under a maxMessageLength the owner lowers.
NextLimits ==
  \/ nextSocket < MaxPeers /\ Connect
  \/ LogOpen /\ \E s \in SocketIds : UserJoin(s, JoinAsAl)
  \/ \E s \in SocketIds : UpdateServerSettings(s, LimitPatch)
  \/ LogOpen /\ \E s \in SocketIds, c \in LimitContents :
       SendMessage(s, [content |-> c])
  \/ \E s \in SocketIds, m \in MessageIds, c \in LimitContents :
       EditMessage(s, [messageId |-> m, newContent |-> c])
  \/ LogOpen /\ \E s \in SocketIds : Disconnect(s)

SpecLimits == Init /\ [][NextLimits]_vars

\* Joins (one per socket) and searches, with the clock running: the owner
\* joins and may switch the history of new users off, and the others join
\* once it is off.
NextDisclosure ==
  \/ Tick
  \/ nextSocket < MaxPeers /\ Connect
  \/ LogOpen /\ \E s \in SocketIds :
       /\ ~UsersHas(users, s)
       /\ s = serverSettings.ownerId \/ ~serverSettings.allowHistoryForNewUsers
       /\ UserJoin(s, JoinAsAl)
  \/ \E s \in SocketIds :
       UpdateServerSettings(s, [allowHistoryForNewUsers |-> FALSE])
  \/ \E s \in SocketIds : SearchMessages(s, JsString(" AL "))
  \/ LogOpen /\ \E s \in SocketIds : Disconnect(s)

SpecDisclosure == Init /\ [][NextDisclosure]_vars

\* The message log among at most MaxPeers connections, without the clock.
NextLog ==
  \/ nextSocket < MaxPeers /\ Connect
  \/ LogOpen /\ \E s \in SocketIds : UserJoin(s, JoinAsAl)
  \/ LogOpen /\ \E s \in SocketIds :
       SendMessage(s, [content |-> JsString(" <b>Yo</b> ")])
  \/ \E s \in SocketIds, m \in MessageIds :
       EditMessage(s, [messageId |-> m, newContent |-> JsString("see http://x.io")])
  \/ \E s \in SocketIds, m \in MessageIds : DeleteMessage(s, m)
  \/ LogOpen /\ \E s \in SocketIds : Disconnect(s)

SpecLog == Init /\ [][NextLog]_vars

\* Every event, each with one input.
Next ==
  \/ nextSocket < MaxPeers /\ Connect
  \/ nextMsgId < MaxNotices /\ \E s \in SocketIds : UserJoin(s, JoinAsAl)
  \/ nextMsgId < MaxNotices /\ \E s \in SocketIds : ChangeUsername(s, JsString(" "))
  \/ \E s \in SocketIds : ChangeBubbleColor(s, "red")
  \/ nextMsgId < MaxNotices /\ \E s \in SocketIds :
       SendMessage(s, [content |-> JsString("hi"), attachment |-> Null])
  \/ \E s \in SocketIds, m \in MessageIds :
       EditMessage(s, [messageId |-> m, newContent |-> JsString("yo")])
  \/ \E s \in SocketIds, m \in MessageIds : DeleteMessage(s, m)
  \/ \E s \in SocketIds :
       AddReaction(s, [messageId |-> uuidv4(1), emoji |-> "+1"])
  \/ \E s \in SocketIds : JoinVoice(s, "r1")
  \/ \E s \in SocketIds : LeaveVoice(s, "r1")
  \/ \E s \in SocketIds :
       UpdateServerSettings(s, [allowVoiceChat |-> FALSE])
  \/ \E s \in SocketIds : SearchMessages(s, JsString("AL"))
  \/ \E s \in SocketIds :
       WebrtcOffer(s, [target |-> SocketId(1), offer |-> "sdp"])
  \/ \E s \in SocketIds :
       WebrtcAnswer(s, [target |-> SocketId(1), answer |-> "sdp"])
  \/ \E s \in SocketIds :
       WebrtcIceCandidate(s, [target |-> SocketId(1), candidate |-> "ice"])
  \/ nextMsgId < MaxNotices /\ \E s \in SocketIds : Disconnect(s)

Spec == Init /\ [][Next]_vars

\* ---------------------------------------------------------------- claims
\* The users whose record says isOwner.
Owners(us) == {i \in 1..Len(us) : us[i].isOwner}

\* C1: after any sequence of connections, joins (repeated joins included)
\* and disconnections, at most one registered user has isOwner = true, and
\* that user's id is serverSettings.ownerId.
C1_AtMostOneOwner ==
  /\ Cardinality(Owners(users)) <= 1
  /\ \A i \in Owners(users) : users[i].id = serverSettings.ownerId

\* C1's case: the first owner has left, two users remain, and the one
\* promoted is the owner.
C1_Witness ==
  /\ Len(users) = 2
  /\ SocketId(1) \notin connected
  /\ Cardinality(Owners(users)) = 1

\* C2 as claimed: when the owner disconnects and other users remain, the
\* handler leaves exactly one owner, serverSettings.ownerId is its id, and
\* it is the remaining user with the earliest joinTime.
C2_SuccessorJoinedEarliest ==
  [][\A s \in SocketIds :
       (Disconnect(s) /\ IsOwnerUser(users, s) /\ Len(users) > 1)
         => /\ Cardinality(Owners(users')) = 1
            /\ \A i \in Owners(users') :
                 /\ serverSettings'.ownerId = users'[i].id
                 /\ \A j \in 1..Len(users') :
                      users'[i].joinTime <= users'[j].joinTime]_vars

\* C3 as claimed: serverSettings.ownerId is null or the id of an open
\* connection that holds ownership, and is null once nobody is connected.
C3_OwnerIdIsOpenConnection ==
  \/ serverSettings.ownerId = Null
  \/ /\ serverSettings.ownerId \in connected
     /\ UsersHas(users, serverSettings.ownerId)
          => UsersGet(users, serverSettings.ownerId).isOwner

\* A signaling event from socket s that names target t.
Signals(s, t) ==
  \/ WebrtcOffer(s, [target |-> t, offer |-> "sdp"])
  \/ WebrtcAnswer(s, [target |-> t, answer |-> "sdp"])
  \/ WebrtcIceCandidate(s, [target |-> t, candidate |-> "ice"])

\* C4 as claimed: a signaling payload reaches at most one connection, the
\* open connection whose id is the target, tagged with the sender's id; when
\* no open connection has that id it reaches nobody.
C4_RelayReachesOnlyTarget ==
  [][\A s \in SocketIds, t \in Targets :
       Signals(s, t)
         => \A i \in 1..Len(emitted') :
              /\ emitted'[i].to \subseteq ({t} \cap connected)
              /\ emitted'[i].payload.sender = s]_vars

\* One of the events the specification says is valid only after user_join,
\* sent by socket s.
GatedEvent(s) ==
  \/ ChangeUsername(s, JsString(" "))
  \/ ChangeBubbleColor(s, "red")
  \/ SendMessage(s, [content |-> JsString("hi"), attachment |-> Null])
  \/ \E m \in MessageIds :
       EditMessage(s, [messageId |-> m, newContent |-> JsString("yo")])
  \/ \E m \in MessageIds : DeleteMessage(s, m)
  \/ AddReaction(s, [messageId |-> uuidv4(1), emoji |-> "+1"])
  \/ JoinVoice(s, "r1")
  \/ LeaveVoice(s, "r1")
  \/ UpdateServerSettings(s, [allowVoiceChat |-> FALSE])
  \/ SearchMessages(s, JsString("AL"))
  \/ Signals(s, SocketId(1))

\* C5 as claimed: such an event from a connection with no user record
\* changes none of users, messages, voiceRooms and serverSettings, and no
\* event reaches any connection.
C5_UnregisteredSenderIsIgnored ==
  [][\A s \in SocketIds :
       (s \in connected /\ ~UsersHas(users, s) /\ GatedEvent(s))
         => /\ UNCHANGED <<users, messages, voiceRooms, serverSettings>>
            /\ \A i \in 1..Len(emitted') : emitted'[i].to = {}]_vars

\* The messages of the log with the given id.
WithId(msgs, messageId) == {i \in 1..Len(msgs) : msgs[i].id = messageId}

\* C6: delete_message removes the message and broadcasts message_deleted if
\* and only if the message exists and the sender is its author or a user
\* whose record says isOwner; otherwise the log stays as it is and nothing
\* is emitted.
C6_DeleteOnlyByAuthorOrOwner ==
  [][\A s \in SocketIds, m \in MessageIds :
       DeleteMessage(s, m)
         => LET isAuthor == \E i \in WithId(messages, m) :
                              "userId" \in DOMAIN messages[i] /\ messages[i].userId = s
                isOwner == \E i \in 1..Len(users) : users[i].id = s /\ users[i].isOwner
            IN IF WithId(messages, m) # {} /\ (isAuthor \/ isOwner)
                 THEN /\ messages' = SelectSeq(messages, LAMBDA msg : msg.id # m)
                      /\ Len(messages') = Len(messages) - 1
                      /\ emitted' = <<[to |-> connected, name |-> "message_deleted",
                                       payload |-> m]>>
                 ELSE /\ messages' = messages
                      /\ emitted' = <<>>]_vars

\* C6's case: after a succession the new owner has deleted a message.
C6_Witness ==
  /\ Len(emitted) = 1
  /\ emitted[1].name = "message_deleted"
  /\ \E i \in 1..Len(users) : users[i].isOwner /\ users[i].id # SocketId(1)

\* C7: edit_message changes a message and broadcasts message_edited only
\* when the message exists and the sender is its author; then only the
\* content, edited and editedAt of that message change; otherwise the log
\* stays as it is and nothing is emitted.
C7_EditOnlyByAuthor ==
  [][\A s \in SocketIds, m \in MessageIds, c \in RawEdits :
       EditMessage(s, [messageId |-> m, newContent |-> c])
         => LET own == {i \in WithId(messages, m) :
                          "userId" \in DOMAIN messages[i] /\ messages[i].userId = s}
            IN IF own = {}
                 THEN messages' = messages /\ emitted' = <<>>
                 ELSE /\ Len(messages') = Len(messages)
                      /\ \A i \in 1..Len(messages) \ own : messages'[i] = messages[i]
                      /\ \A i \in own :
                           /\ DOMAIN messages'[i] = DOMAIN messages[i] \cup {"edited", "editedAt"}
                           /\ \A f \in DOMAIN messages[i] \ {"content", "edited", "editedAt"} :
                                messages'[i][f] = messages[i][f]
                           /\ messages'[i].edited /\ messages'[i].editedAt = now
                           /\ emitted' = <<[to |-> connected, name |-> "message_edited",
                                            payload |-> [messageId |-> m,
                                                         newContent |-> messages'[i].content,
                                                         edited |-> TRUE,
                                                         editedAt |-> now]]>>]_vars

\* C7's case: an author has edited a message of a log that holds others,
\* after the clock advanced.
C7_Witness ==
  /\ Len(emitted) = 1
  /\ emitted[1].name = "message_edited"
  /\ \E i \in 1..Len(messages) :
       /\ "edited" \in DOMAIN messages[i]
       /\ messages[i].editedAt > messages[i].timestamp
       /\ i > 1

\* C8: update_server_settings changes serverSettings and broadcasts
\* server_settings only when the sender is a user whose record says isOwner;
\* then the fields of the patch take its values and every other field keeps
\* its value; from any other connection nothing changes and nothing is
\* emitted.
C8_SettingsOnlyByOwner ==
  [][\A s \in SocketIds, p \in Patches :
       UpdateServerSettings(s, p)
         => IF \E i \in 1..Len(users) : users[i].id = s /\ users[i].isOwner
              THEN /\ DOMAIN serverSettings' = DOMAIN serverSettings \cup DOMAIN p
                   /\ \A f \in DOMAIN p : serverSettings'[f] = p[f]
                   /\ \A f \in DOMAIN serverSettings \ DOMAIN p :
                        serverSettings'[f] = serverSettings[f]
                   /\ emitted' = <<[to |-> connected, name |-> "server_settings",
                                    payload |-> serverSettings']>>
              ELSE serverSettings' = serverSettings /\ emitted' = <<>>]_vars

\* C8's case: the owner has applied two patches, with another user
\* registered, and the first patch's field is still there after the second.
C8_Witness ==
  /\ Len(users) >= 2
  /\ Len(emitted) = 1
  /\ emitted[1].name = "server_settings"
  /\ serverSettings.serverName = "Den"
  /\ ~serverSettings.allowHistoryForNewUsers

\* A list in which no entry occurs twice.
NoDuplicates(list) ==
  \A a, b \in 1..Len(list) : a # b => list[a] # list[b]

\* C9: no reaction list ever holds a username twice, and an add_reaction
\* from a user whose username is already in the list of that message and
\* emoji changes nothing and emits nothing.
C9_NoDuplicateReaction ==
  /\ [](\A i \in 1..Len(messages) :
          "reactions" \in DOMAIN messages[i]
            => \A e \in DOMAIN messages[i].reactions :
                 NoDuplicates(messages[i].reactions[e]))
  /\ [][\A s \in SocketIds, d \in ReactionInputs :
          (/\ \E u \in 1..Len(users), i \in WithId(messages, d.messageId) :
                /\ users[u].id = s
                /\ "reactions" \in DOMAIN messages[i]
                /\ d.emoji \in DOMAIN messages[i].reactions
                /\ \E k \in 1..Len(messages[i].reactions[d.emoji]) :
                     messages[i].reactions[d.emoji][k] = users[u].username
           /\ AddReaction(s, d))
            => UNCHANGED messages /\ emitted' = <<>>]_vars

\* C9's case: a list holds two usernames, one of them the current username
\* of a registered user, and the last handler emitted nothing.
C9_Witness ==
  /\ \E i \in 1..Len(messages) :
       /\ "reactions" \in DOMAIN messages[i]
       /\ "+1" \in DOMAIN messages[i].reactions
       /\ Len(messages[i].reactions["+1"]) = 2
       /\ \E u \in 1..Len(users), k \in 1..2 :
            users[u].username = messages[i].reactions["+1"][k]
  /\ emitted = <<>>

\* C10: the voiceRooms registry never holds a room without members: a room
\* has an entry (one entry) exactly when some socket is a member, and its
\* members are the sockets in its socket.io room.
C10_NoEmptyVoiceRoom ==
  /\ \A i \in 1..Len(voiceRooms) : voiceRooms[i].members # {}
  /\ \A i, j \in 1..Len(voiceRooms) :
       voiceRooms[i].roomId = voiceRooms[j].roomId => i = j
  /\ \A r \in RoomIds :
       LET inChannel == {s \in SocketIds : VoiceChannel(r) \in sockRooms[s]}
       IN IF inChannel = {}
            THEN ~RoomHas(voiceRooms, r)
            ELSE RoomHas(voiceRooms, r) /\ RoomGet(voiceRooms, r) = inChannel

\* C10's case: a user in two rooms has disconnected, which emptied one room
\* and left another with a member.
C10_Witness ==
  /\ Len(emitted) >= 2
  /\ emitted[1].name = "voice_user_left"
  /\ emitted[2].name = "voice_user_left"
  /\ Len(voiceRooms) = 1

\* The ids uuidv4 has handed out whose message is no longer in the log:
\* every id handed out was pushed to the log, so these were deleted.
Deleted == {m \in {uuidv4(i) : i \in 1..nextMsgId} : WithId(messages, m) = {}}

\* C11: once a message has been deleted it stays out of the log, and a
\* further delete_message with its id, by any connection, leaves the log as
\* it is and emits nothing.
C11_DeleteIsIdempotent ==
  [][\A m \in Deleted :
       /\ WithId(messages', m) = {}
       /\ \A s \in SocketIds :
            DeleteMessage(s, m) => messages' = messages /\ emitted' = <<>>]_vars

\* C11's case: a message was deleted, its author and the owner are still
\* registered, other messages remain and the last handler emitted nothing.
C11_Witness ==
  /\ Deleted # {}
  /\ Len(messages) >= 1
  /\ \E i \in 1..Len(users) : users[i].isOwner
  /\ emitted = <<>>

\* The message_history events among the events a handler emitted.
Histories(events) == {i \in 1..Len(events) : events[i].name = "message_history"}

\* C12: a user_join sends message_history exactly when
\* allowHistoryForNewUsers is true at that moment, to the joining socket
\* alone, and its payload is the log as it was before the join notice, which
\* the handler then appends.
C12_HistoryOnJoin ==
  [][\A s \in SocketIds :
       UserJoin(s, JoinAsAl)
         => IF serverSettings.allowHistoryForNewUsers
              THEN /\ Cardinality(Histories(emitted')) = 1
                   /\ \A i \in Histories(emitted') :
                        /\ emitted'[i].to = {s}
                        /\ emitted'[i].payload = messages
                        /\ Len(messages') = Len(messages) + 1
                        /\ SubSeq(messages', 1, Len(messages)) = emitted'[i].payload
                        /\ messages'[Len(messages')].content = "al joined the chat"
              ELSE Histories(emitted') = {}]_vars

\* C12's case: the second socket to join a fresh server received, alone, a
\* history that holds exactly the first joiner's notice.
C12_Witness ==
  /\ Len(messages) = 2
  /\ Histories(emitted) # {}
  /\ \A i \in Histories(emitted) :
       /\ emitted[i].to = {SocketId(2)}
       /\ Len(emitted[i].payload) = 1
       /\ emitted[i].payload[1] = messages[1]
       /\ emitted[i].payload[1].content = "al joined the chat"

\* C13 as claimed: no handler throws, whatever the shape of its payload.
C13_NoHandlerFaults == fault = Null

\* C14 as claimed: a send_message or edit_message whose submitted content
\* is longer than maxMessageLength stores nothing, changes no message and
\* emits nothing.
C14_MaxLengthEnforced ==
  [][\A s \in SocketIds, c \in LimitContents :
       Len(c.v) > serverSettings.maxMessageLength
         => /\ SendMessage(s, [content |-> c])
                 => messages' = messages /\ emitted' = <<>>
            /\ \A m \in MessageIds :
                 EditMessage(s, [messageId |-> m, newContent |-> c])
                   => messages' = messages /\ emitted' = <<>>]_vars

\* C15 as claimed: whatever patch the owner sends, at most one user has
\* isOwner and its id is serverSettings.ownerId, and an
\* update_server_settings changes neither ownerId nor who has isOwner.
C15_SettingsKeepTheOwner ==
  /\ [](/\ Cardinality(Owners(users)) <= 1
        /\ \A i \in Owners(users) : users[i].id = serverSettings.ownerId)
  /\ [][\A s \in SocketIds, p \in Patches :
          UpdateServerSettings(s, p)
            => /\ serverSettings'.ownerId = serverSettings.ownerId
               /\ users' = users]_vars

\* The users_update events among the events the last handler emitted.
UsersUpdates == {i \in 1..Len(emitted) : emitted[i].name = "users_update"}

\* C16 as claimed: when the last handler broadcast users_update, the payload
\* of its last users_update is the users registry as the handler left it,
\* record by record and field by field.
C16_PresenceBroadcastIsCurrent ==
  \A i \in UsersUpdates :
    (\A j \in UsersUpdates : j <= i) => emitted[i].payload = users

\* What a client keeps of a log: the ids and contents, in order.
View(msgs) == [i \in 1..Len(msgs) |-> [id |-> msgs[i].id, content |-> msgs[i].content]]

\* A client's view after one event: message_history replaces it, new_message
\* appends, message_edited replaces a content, message_deleted removes.
ApplyEvent(view, ev) ==
  CASE ev.name = "message_history" -> View(ev.payload)
    [] ev.name = "new_message" -> Append(view, [id |-> ev.payload.id,
                                                content |-> ev.payload.content])
    [] ev.name = "message_edited" ->
         [i \in 1..Len(view) |->
            IF view[i].id = ev.payload.messageId
              THEN [view[i] EXCEPT !.content = ev.payload.newContent]
              ELSE view[i]]
    [] ev.name = "message_deleted" -> SelectSeq(view, LAMBDA v : v.id # ev.payload)
    [] OTHER -> view

RECURSIVE ApplyEvents(_, _)
ApplyEvents(view, events) ==
  IF events = <<>> THEN view
  ELSE ApplyEvents(ApplyEvent(view, Head(events)), Tail(events))

\* The events delivered to socket c, in order.
Delivered(events, c) == SelectSeq(events, LAMBDA ev : c \in ev.to)

\* C17: the events a handler delivers to an open socket take a view equal
\* to the log before the handler to a view equal to the log after it, and a
\* delivery that holds a message_history takes any view (the empty one of a
\* new client too) to the log after the handler; so a client that starts
\* from a message_history holds the server's log after every handler.  The
\* clock's tick is no handler: it delivers nothing.
C17_ClientViewIsTheLog ==
  [][now' = now
       => \A c \in connected' :
            LET events == Delivered(emitted', c)
            IN /\ ApplyEvents(View(messages), events) = View(messages')
               /\ Histories(events) # {}
                    => ApplyEvents(<<>>, events) = View(messages')]_vars

\* C17's case: the second socket joined and got the history, the first
\* socket's message was then edited, and a message_deleted that removed a
\* message from the middle of the log has just reached both.
C17_Witness ==
  /\ Len(emitted) = 1
  /\ emitted[1].name = "message_deleted"
  /\ emitted[1].to = {SocketId(1), SocketId(2)}
  /\ UsersHas(users, SocketId(2))
  /\ Len(messages) = 2
  /\ messages[1].id = uuidv4(1)
  /\ messages[2].id = uuidv4(3)
  /\ "edited" \in DOMAIN messages[2]

\* The messages an outbound event carries.
Carried(ev) ==
  CASE ev.name \in {"message_history", "search_results"} -> Range(ev.payload)
    [] ev.name = "new_message" -> {ev.payload}
    [] OTHER -> {}

\* C18 as claimed: while allowHistoryForNewUsers is false, no event that
\* reaches a joined socket carries a message whose timestamp is earlier
\* than the moment that socket joined.
C18_NoOlderMessageDisclosed ==
  ~serverSettings.allowHistoryForNewUsers
    => \A i \in 1..Len(emitted) :
         \A c \in emitted[i].to :
           UsersHas(users, c)
             => \A msg \in Carried(emitted[i]) :
                  msg.timestamp >= UsersGet(users, c).joinTime

\* The rooms of the registry that have socket s as a member.
RoomsOf(s) == {i \in 1..Len(voiceRooms) : s \in voiceRooms[i].members}

\* The voice_user_left events among the events a handler emitted.
Lefts(events) == {i \in 1..Len(events) : events[i].name = "voice_user_left"}

\* C19 as claimed: a leave_voice from a socket that is no member of the
\* room changes no membership and emits nothing, a leave_voice from a
\* member emits one voice_user_left that names it, and a disconnect emits
\* one voice_user_left for each room the socket was a member of.
C19_LeftOnlyByMembers ==
  [][/\ \A s \in SocketIds, r \in RoomIds :
          LeaveVoice(s, r)
            => IF RoomHas(voiceRooms, r) /\ s \in RoomGet(voiceRooms, r)
                 THEN /\ Len(emitted') = 1
                      /\ emitted'[1].name = "voice_user_left"
                      /\ emitted'[1].payload = s
                 ELSE voiceRooms' = voiceRooms /\ emitted' = <<>>
     /\ \A s \in SocketIds :
          Disconnect(s)
            => /\ Cardinality(Lefts(emitted')) = Cardinality(RoomsOf(s))
               /\ \A i \in Lefts(emitted') : emitted'[i].payload = s]_vars

\* The reaction lists of the log, one for each message and emoji.
ReactionLists ==
  UNION {{messages[i].reactions[e] : e \in DOMAIN messages[i].reactions} :
           i \in {j \in 1..Len(messages) : "reactions" \in DOMAIN messages[j]}}

\* C20 as claimed, in what it says of a state.  Each socket accounts for at
\* most one entry of a list, so a list has no more entries than sockets
\* have connected; and a list with fewer entries than there are users leaves
\* a user who has not reacted, whose add_reaction must add an entry: the
\* condition of add_reaction lets some user through.
C20_OneEntryPerConnection ==
  \A list \in ReactionLists :
    /\ Len(list) <= nextSocket
    /\ Len(list) < Len(users)
         => \E u \in 1..Len(users) : MayReact(list, users[u].username)

====
